---- MODULE Spec2Model ----
(***************************************************************************)
(* Model of the raqm-rs wrapper (src/src/lib.rs): a Raqm value owns one    *)
(* engine handle (raqm_t) and every method forwards one call to the        *)
(* engine and maps its answer to a Result.  The engine is an external      *)
(* library: its answer to each call (true/false, null/non-null, the values *)
(* it writes through out-pointers) is an input of the wrapper and is drawn *)
(* with \E.  What an accepted call does to the handle follows the doc      *)
(* comments of the wrapper.                                                *)
(***************************************************************************)
EXTENDS Integers, Sequences, FiniteSets, TLC

\* ------------------------------------------------------------- bounds
NumSessions == 2
MaxLen == 3          \* text indices 0 .. MaxLen-1 carry attributes
MaxStart == 1        \* range starts 0 .. MaxStart
MaxSpan == 2         \* third argument of the range calls: 0 .. MaxSpan
MaxFeatures == 1     \* features kept per handle

Sessions == 1..NumSessions
Indices == 0..(MaxLen - 1)

\* ------------------------------------------------------------- inputs
NoLang == "-"
NoFace == "-"
Garbled == "??"
Langs == {"en", "fr"}
Faces == {"f1"}
Features == {"liga"}
LoadFlags == {4}
InputStrs == {<< >>, <<233, 65>>}                   \* &str, as scalar values
InputScalars == {<<65, 65, 65>>, <<65, 1114112, 233>>}  \* &[u32]
Coords == {0, 5}
FeatureLens == {4, 6}

\* pub enum Direction
Direction == {"Default", "RightToLeft", "LeftToRight", "TopToBottom"}

\* pub enum RaqmError, and Ok
Results == {"Ok", "CreateFailed", "GetGlyphsFailed", "Failed"}

\* raqm_glyph_t values the engine may hand out
EngineGlyph(i, c) ==
  [index |-> i, x_advance |-> 10, y_advance |-> 0, x_offset |-> 1,
   y_offset |-> 0, cluster |-> c, ftface |-> "f1"]
GlyphArrays == {<< >>, <<EngineGlyph(7, 0)>>, <<EngineGlyph(9, 1), EngineGlyph(7, 0)>>}

\* ------------------------------------------------------------- helpers
\* `x as c_int` for a usize x: the low 32 bits, read as signed.  Every length
\* drawn below is under 2^31, where the cast keeps the value.
AsCInt(n) == IF n <= 2147483647 THEN n ELSE -1

\* str::as_ptr / str::len: the UTF-8 bytes of a string
RECURSIVE Utf8(_)
Utf8(str) ==
  IF str = << >> THEN << >>
  ELSE LET c == Head(str)
           b == IF c < 128 THEN <<c>>
                ELSE <<192 + (c \div 64), 128 + (c % 64)>>
       IN b \o Utf8(Tail(str))

\* "any invalid character will be replaced with U+FFFD"
ReplaceInvalid(units) ==
  [i \in 1..Len(units) |->
     IF units[i] > 1114111 \/ (units[i] >= 55296 /\ units[i] <= 57343)
     THEN 65533 ELSE units[i]]

\* What the engine reads through `s.as_ptr() as *const i8` when it expects a
\* NUL-terminated string: a &str carries no terminator, so the read runs on
\* into whatever follows the string.
CStrRead(s) == {s, Garbled}

\* What the engine reads for (feature.as_ptr(), len as c_int): len bytes, or
\* up to a terminator when the length is negative.
FeatureRead(feature, len) ==
  IF AsCInt(len) = 4 THEN {feature} ELSE {Garbled}

\* check_success that reports success whatever the engine answered
check_success_always_ok(code) == "Ok"

\* macro check_success
check_success(code) == IF code THEN "Ok" ELSE "Failed"

\* a conversion that crosses the two advances
GlyphFromCrossed(glyph) ==
  [index |-> glyph.index, x_advance |-> glyph.y_advance,
   y_advance |-> glyph.x_advance, x_offset |-> glyph.x_offset,
   y_offset |-> glyph.y_offset, cluster |-> glyph.cluster, face |-> glyph.ftface]

\* impl From<T> for Glyph
GlyphFrom(glyph) ==
  [index |-> glyph.index, x_advance |-> glyph.x_advance,
   y_advance |-> glyph.y_advance, x_offset |-> glyph.x_offset,
   y_offset |-> glyph.y_offset, cluster |-> glyph.cluster, face |-> glyph.ftface]

\* ------------------------------------------------------------- state
VARIABLES
  ptr,            \* per session: "none" (no value), "live" (Raqm { ptr }), "dropped"
  text,           \* engine: the text held by the handle
  par_direction,  \* engine: paragraph direction
  lang,           \* engine: language per text index
  face,           \* engine: FT_Face per text index
  load_flags,     \* engine: FreeType load flags
  features,       \* engine: font features, in call order
  text_set,       \* history: a text-setting call has returned Ok
  laid_out,       \* history: layout() has returned Ok
  destroyed,      \* history: number of raqm_destroy calls on the handle
  lang_halfopen,  \* history: the language per index, had every accepted
                  \* set_language(tag, start, end) given the tag the engine
                  \* read to the indices of [start, end)
  last            \* the latest call: its arguments, the engine's answer, the Result

vars == <<ptr, text, par_direction, lang, face, load_flags, features,
          text_set, laid_out, destroyed, lang_halfopen, last>>

engine == <<text, par_direction, lang, face, load_flags, features>>

NoText == [enc |-> "none", units |-> << >>]
TextLen(s) == Len(text[s].units)

\* The engine function each method forwards to
EngineFn(op) ==
  CASE op = "new" -> "raqm_create"
    [] op = "set_text_utf32" -> "raqm_set_text"
    [] op = "set_text" -> "raqm_set_text_utf8"
    [] op = "set_par_direction" -> "raqm_set_par_direction"
    [] op = "set_language" -> "raqm_set_language"
    [] op = "set_freetype_face" -> "raqm_set_freetype_face"
    [] op = "set_freetype_face_range" -> "raqm_set_freetype_face_range"
    [] op = "set_freetype_load_flags" -> "raqm_set_freetype_load_flags"
    [] op = "add_font_feature" -> "raqm_add_font_feature"
    [] op = "layout" -> "raqm_layout"
    [] op = "glyphs" -> "raqm_get_glyphs"
    [] op = "index_to_position" -> "raqm_index_to_position"
    [] op = "position_to_index" -> "raqm_position_to_index"
    [] op = "drop" -> "raqm_destroy"

\* a method that calls the engine a second time with the same arguments
ForwardTwice(fn, args) == <<[fn |-> fn, args |-> args], [fn |-> fn, args |-> args]>>

\* a method that keeps a range to itself instead of forwarding it
ForwardUnlessRange(fn, args) ==
  IF fn \in {"raqm_set_language", "raqm_set_freetype_face_range"}
  THEN << >> ELSE <<[fn |-> fn, args |-> args]>>

\* The body of every method: one `unsafe { raqm_xxx(self.ptr, ...) }`, made
\* when the method is called, with the integer arguments it was given
Forward(fn, args) == <<[fn |-> fn, args |-> args]>>

\* The record of one call.  was_text_set, was_laid_out: the history when the
\* call was made; arg: its integer arguments; tag: its string argument and
\* seen: what the engine read of it; eng: the engine's answer (a boolean
\* result, or a non-null pointer); out: what the engine wrote through the
\* out-pointers; ret/val/glyphs: the Result the method returned; calls: the
\* engine calls the method made, in order, and ncalls their number.
Call(s, op, arg, eng, out, ret, val, eg, gl) ==
  [s |-> s, op |-> op, was_text_set |-> text_set[s], was_laid_out |-> laid_out[s],
   arg |-> arg, tag |-> "", seen |-> "", eng |-> eng, out |-> out,
   ret |-> ret, val |-> val, eng_glyphs |-> eg, glyphs |-> gl,
   calls |-> Forward(EngineFn(op), arg), ncalls |-> Len(Forward(EngineFn(op), arg))]

Init ==
  /\ ptr = [s \in Sessions |-> "none"]
  /\ text = [s \in Sessions |-> NoText]
  /\ par_direction = [s \in Sessions |-> "Default"]
  /\ lang = [s \in Sessions |-> [i \in Indices |-> NoLang]]
  /\ face = [s \in Sessions |-> [i \in Indices |-> NoFace]]
  /\ load_flags = [s \in Sessions |-> 0]
  /\ features = [s \in Sessions |-> << >>]
  /\ text_set = [s \in Sessions |-> FALSE]
  /\ laid_out = [s \in Sessions |-> FALSE]
  /\ destroyed = [s \in Sessions |-> 0]
  /\ lang_halfopen = [s \in Sessions |-> [i \in Indices |-> NoLang]]
  /\ last = [s |-> 0, op |-> "none", was_text_set |-> FALSE, was_laid_out |-> FALSE,
             arg |-> << >>, tag |-> "", seen |-> "", eng |-> FALSE, out |-> << >>,
             ret |-> "Ok", val |-> << >>, eng_glyphs |-> << >>, glyphs |-> << >>,
             calls |-> << >>, ncalls |-> 0]


\* ------------------------------------------------------------- operations
\* Raqm::new: a Raqm value exists only when raqm_create returned non-null.
NewResult(nonnull) == IF nonnull THEN "Ok" ELSE "CreateFailed"

new(s, nonnull) ==
  /\ ptr[s] = "none"
  /\ ptr' = [ptr EXCEPT ![s] = IF NewResult(nonnull) = "Ok" THEN "live" ELSE @]
  /\ last' = Call(s, "new", << >>, nonnull, << >>, NewResult(nonnull), << >>, << >>, << >>)
  /\ UNCHANGED <<engine, text_set, laid_out, destroyed, lang_halfopen>>

\* raqm_set_text / raqm_set_text_utf8, when the engine accepts the call
StoreText(s, enc, units) == [text EXCEPT ![s] = [enc |-> enc, units |-> units]]

\* Raqm::set_text_utf32(text: &[u32])
set_text_utf32(s, units, ok) ==
  /\ ptr[s] = "live"
  /\ text' = IF ok THEN StoreText(s, "utf32", ReplaceInvalid(units)) ELSE text
  /\ text_set' = [text_set EXCEPT ![s] = @ \/ (check_success(ok) = "Ok")]
  /\ last' = Call(s, "set_text_utf32", <<Len(units)>>, ok, << >>, check_success(ok),
                  << >>, << >>, << >>)
  /\ UNCHANGED <<ptr, par_direction, lang, face, load_flags, features, laid_out, destroyed, lang_halfopen>>

\* Raqm::set_text(text: &str): the bytes of the string and their count
set_text(s, str, ok) ==
  /\ ptr[s] = "live"
  /\ text' = IF ok THEN StoreText(s, "utf8", Utf8(str)) ELSE text
  /\ text_set' = [text_set EXCEPT ![s] = @ \/ (check_success(ok) = "Ok")]
  /\ last' = Call(s, "set_text", <<Len(Utf8(str))>>, ok, << >>, check_success(ok),
                  << >>, << >>, << >>)
  /\ UNCHANGED <<ptr, par_direction, lang, face, load_flags, features, laid_out, destroyed, lang_halfopen>>

\* Raqm::set_par_direction
set_par_direction(s, direction, ok) ==
  /\ ptr[s] = "live"
  /\ par_direction' = IF ok THEN [par_direction EXCEPT ![s] = direction] ELSE par_direction
  /\ last' = Call(s, "set_par_direction", << >>, ok, << >>, check_success(ok),
                  << >>, << >>, << >>)
  /\ UNCHANGED <<ptr, text, lang, face, load_flags, features, text_set, laid_out, destroyed, lang_halfopen>>

\* The engine's range calls take (start, len): the attribute is "to be used
\* for len-number of characters starting at start".
ApplyRange(s, attr, start, len, payload) ==
  [i \in Indices |->
     IF start <= i /\ i < start + len /\ i < TextLen(s) THEN payload ELSE attr[i]]

\* Raqm::set_language(lang_code, start, end): end is handed to the engine as
\* its fourth argument.
set_language(s, lang_code, start, end, ok, seen) ==
  /\ ptr[s] = "live"
  /\ seen \in CStrRead(lang_code)
  /\ lang' = IF ok THEN [lang EXCEPT ![s] = ApplyRange(s, @, start, end, seen)] ELSE lang
  /\ lang_halfopen' =
       IF check_success(ok) = "Ok"
       THEN [lang_halfopen EXCEPT ![s] =
               [i \in Indices |->
                  IF start <= i /\ i < end /\ i < TextLen(s) THEN seen ELSE @[i]]]
       ELSE lang_halfopen
  /\ last' = [Call(s, "set_language", <<start, end>>, ok, << >>, check_success(ok),
                   << >>, << >>, << >>) EXCEPT !.tag = lang_code, !.seen = seen]
  /\ UNCHANGED <<ptr, text, par_direction, face, load_flags, features, text_set,
                 laid_out, destroyed>>

\* Raqm::set_freetype_face: "to be used for all characters"
set_freetype_face(s, f, ok) ==
  /\ ptr[s] = "live"
  /\ face' = IF ok THEN [face EXCEPT ![s] = ApplyRange(s, @, 0, TextLen(s), f)] ELSE face
  /\ last' = Call(s, "set_freetype_face", << >>, ok, << >>, check_success(ok),
                  << >>, << >>, << >>)
  /\ UNCHANGED <<ptr, text, par_direction, lang, load_flags, features, text_set,
                 laid_out, destroyed, lang_halfopen>>

\* Raqm::set_freetype_face_range(face, start, end)
set_freetype_face_range(s, f, start, end, ok) ==
  /\ ptr[s] = "live"
  /\ face' = IF ok THEN [face EXCEPT ![s] = ApplyRange(s, @, start, end, f)] ELSE face
  /\ last' = [Call(s, "set_freetype_face_range", <<start, end>>, ok, << >>,
                   check_success(ok), << >>, << >>, << >>) EXCEPT !.tag = f, !.seen = f]
  /\ UNCHANGED <<ptr, text, par_direction, lang, load_flags, features, text_set,
                 laid_out, destroyed, lang_halfopen>>

\* Raqm::set_freetype_load_flags
set_freetype_load_flags(s, flags, ok) ==
  /\ ptr[s] = "live"
  /\ load_flags' = IF ok THEN [load_flags EXCEPT ![s] = flags] ELSE load_flags
  /\ last' = Call(s, "set_freetype_load_flags", <<flags>>, ok, << >>, check_success(ok),
                  << >>, << >>, << >>)
  /\ UNCHANGED <<ptr, text, par_direction, lang, face, features, text_set,
                 laid_out, destroyed, lang_halfopen>>

\* an add_font_feature that records the feature although the engine refused it
add_font_feature_keeps_rejected(s, feature, len, ok, seen) ==
  /\ ptr[s] = "live"
  /\ seen \in FeatureRead(feature, len)
  /\ Len(features[s]) < MaxFeatures
  /\ features' = [features EXCEPT ![s] = Append(@, seen)]
  /\ last' = Call(s, "add_font_feature", <<AsCInt(len)>>, ok, << >>, check_success(ok),
                  << >>, << >>, << >>)
  /\ UNCHANGED <<ptr, text, par_direction, lang, face, load_flags, text_set,
                 laid_out, destroyed, lang_halfopen>>

\* Raqm::add_font_feature(feature, len): "new features will be appended to
\* the end of the features list"
add_font_feature(s, feature, len, ok, seen) ==
  /\ ptr[s] = "live"
  /\ seen \in FeatureRead(feature, len)
  /\ ok => Len(features[s]) < MaxFeatures
  /\ features' = IF ok THEN [features EXCEPT ![s] = Append(@, seen)] ELSE features
  /\ last' = Call(s, "add_font_feature", <<AsCInt(len)>>, ok, << >>, check_success(ok),
                  << >>, << >>, << >>)
  /\ UNCHANGED <<ptr, text, par_direction, lang, face, load_flags, text_set,
                 laid_out, destroyed, lang_halfopen>>

\* Raqm::layout
layout(s, ok) ==
  /\ ptr[s] = "live"
  /\ laid_out' = [laid_out EXCEPT ![s] = @ \/ (check_success(ok) = "Ok")]
  /\ last' = Call(s, "layout", << >>, ok, << >>, check_success(ok), << >>, << >>, << >>)
  /\ UNCHANGED <<ptr, engine, text_set, destroyed, lang_halfopen>>

\* Raqm::get_glyphs_mut_ptr
get_glyphs_mut_ptr(nonnull) == IF nonnull THEN "Ok" ELSE "GetGlyphsFailed"

\* Raqm::glyphs: array is what raqm_get_glyphs points at, its length what the
\* engine wrote to glyphs_array_len
glyphs(s, nonnull, array) ==
  /\ ptr[s] = "live"
  /\ ~nonnull => array = << >>
  /\ last' = Call(s, "glyphs", << >>, nonnull, <<Len(array)>>, get_glyphs_mut_ptr(nonnull),
                  << >>, array,
                  IF get_glyphs_mut_ptr(nonnull) = "Ok"
                  THEN [i \in 1..Len(array) |-> GlyphFrom(array[i])] ELSE << >>)
  /\ UNCHANGED <<ptr, engine, text_set, laid_out, destroyed, lang_halfopen>>

\* struct Position, as <<index, x, y>>
Position(index, x, y) == <<index, x, y>>

\* a Position built from the index the caller passed, not the one written back
PositionEcho(index, wi, wx, wy) == Position(index, wx, wy)

\* result.map(|_| Position { index, x, y }): index was handed to the engine
\* as an inout parameter and now holds wi
PositionResult(index, wi, wx, wy) == Position(wi, wx, wy)

\* Raqm::index_to_position: index is an inout parameter, x and y start at 0;
\* wi, wx, wy are what the engine leaves in them
index_to_position(s, index, ok, wi, wx, wy) ==
  /\ ptr[s] = "live"
  /\ ~ok => (wi = index /\ wx = 0 /\ wy = 0)
  /\ last' = Call(s, "index_to_position", <<index>>, ok, <<wi, wx, wy>>,
                  check_success(ok),
                  IF check_success(ok) = "Ok" THEN PositionResult(index, wi, wx, wy) ELSE << >>,
                  << >>, << >>)
  /\ UNCHANGED <<ptr, engine, text_set, laid_out, destroyed, lang_halfopen>>

\* Raqm::position_to_index: index starts at 0; wi is what the engine leaves
position_to_index(s, x, y, ok, wi) ==
  /\ ptr[s] = "live"
  /\ ~ok => wi = 0
  /\ last' = Call(s, "position_to_index", <<x, y>>, ok, <<wi>>, check_success(ok),
                  IF check_success(ok) = "Ok" THEN <<wi>> ELSE << >>, << >>, << >>)
  /\ UNCHANGED <<ptr, engine, text_set, laid_out, destroyed, lang_halfopen>>

\* a teardown that forgets the handle without calling raqm_destroy
drop_without_destroy(s) ==
  /\ ptr[s] = "live"
  /\ ptr' = [ptr EXCEPT ![s] = "dropped"]
  /\ last' = Call(s, "drop", << >>, TRUE, << >>, "Ok", << >>, << >>, << >>)
  /\ UNCHANGED <<engine, text_set, laid_out, destroyed, lang_halfopen>>

\* impl Drop for Raqm
drop(s) ==
  /\ ptr[s] = "live"
  /\ ptr' = [ptr EXCEPT ![s] = "dropped"]
  /\ destroyed' = [destroyed EXCEPT ![s] = @ + 1]
  /\ last' = Call(s, "drop", << >>, TRUE, << >>, "Ok", << >>, << >>, << >>)
  /\ UNCHANGED <<engine, text_set, laid_out, lang_halfopen>>

\* ------------------------------------------------------------- specifications
\* The whole API on one session; every argument from a small set.
Next ==
  \E s \in {1} :
    \/ \E nonnull \in BOOLEAN : new(s, nonnull)
    \/ \E units \in InputScalars, ok \in BOOLEAN : set_text_utf32(s, units, ok)
    \/ \E str \in InputStrs, ok \in BOOLEAN : set_text(s, str, ok)
    \/ \E d \in Direction, ok \in BOOLEAN : set_par_direction(s, d, ok)
    \/ \E ok \in BOOLEAN, seen \in Langs \cup {Garbled} :
          set_language(s, "en", 0, 1, ok, seen)
    \/ \E f \in Faces, ok \in BOOLEAN : set_freetype_face(s, f, ok)
    \/ \E f \in Faces, ok \in BOOLEAN : set_freetype_face_range(s, f, 1, 1, ok)
    \/ \E flags \in LoadFlags, ok \in BOOLEAN : set_freetype_load_flags(s, flags, ok)
    \/ \E feature \in Features, len \in FeatureLens, ok \in BOOLEAN,
          seen \in Features \cup {Garbled} : add_font_feature(s, feature, len, ok, seen)
    \/ \E ok \in BOOLEAN : layout(s, ok)
    \/ \E nonnull \in BOOLEAN, array \in GlyphArrays : glyphs(s, nonnull, array)
    \/ \E index \in Indices, ok \in BOOLEAN, wi \in Indices, wx \in Coords, wy \in {0} :
          index_to_position(s, index, ok, wi, wx, wy)
    \/ \E x \in Coords, y \in {0}, ok \in BOOLEAN, wi \in Indices :
          position_to_index(s, x, y, ok, wi)
    \/ drop(s)

Spec == Init /\ [][Next]_vars

\* The attribute ranges of one session: every start, third argument and tag.
NextRanges ==
  \E s \in {1} :
    \/ new(s, TRUE)
    \/ \E ok \in BOOLEAN : set_text_utf32(s, <<65, 65, 65>>, ok)
    \/ \E ok \in BOOLEAN : set_text(s, <<233, 65>>, ok)
    \/ \E l \in Langs, start \in 0..MaxStart, end \in 0..MaxSpan, ok \in BOOLEAN,
          seen \in Langs \cup {Garbled} : set_language(s, l, start, end, ok, seen)
    \/ \E f \in Faces, ok \in BOOLEAN : set_freetype_face(s, f, ok)
    \/ \E f \in Faces, start \in 0..MaxStart, end \in 0..MaxSpan, ok \in BOOLEAN :
          set_freetype_face_range(s, f, start, end, ok)
    \/ \E ok \in BOOLEAN : layout(s, ok)

SpecRanges == Init /\ [][NextRanges]_vars

\* Two sessions side by side, each through its phases and its teardown.
NextPair ==
  \E s \in Sessions :
    \/ \E nonnull \in BOOLEAN : new(s, nonnull)
    \/ \E ok \in BOOLEAN : set_text(s, <<233, 65>>, ok)
    \/ \E ok \in BOOLEAN : set_par_direction(s, "RightToLeft", ok)
    \/ \E ok \in BOOLEAN : layout(s, ok)
    \/ \E ok \in BOOLEAN : position_to_index(s, 5, 0, ok, IF ok THEN 1 ELSE 0)
    \/ drop(s)

SpecPair == Init /\ [][NextPair]_vars


\* ------------------------------------------------------------- claims
QueryOps == {"glyphs", "index_to_position", "position_to_index"}
SetTextOps == {"set_text", "set_text_utf32"}
ConfigOps == {"set_par_direction", "set_language", "set_freetype_face",
              "set_freetype_face_range", "set_freetype_load_flags", "add_font_feature"}
BoolOps == SetTextOps \cup ConfigOps \cup {"layout", "index_to_position", "position_to_index"}

\* C1: a query made while layout() has not yet returned Ok returns
\* Err(Failed): glyphs(), index_to_position and position_to_index alike.
C1_QueryBeforeLayoutFails ==
  (last.op \in QueryOps /\ ~last.was_laid_out) => last.ret = "Failed"

\* C2: once a text-setting call has returned Ok, every later set_text or
\* set_text_utf32 on the session returns Err(Failed) and leaves the text held
\* by the session as it was.
C2_TextSetOnce ==
  [][\A s \in Sessions :
       (text_set[s] /\ last'.s = s /\ last'.op \in SetTextOps)
         => (last'.ret = "Failed" /\ text'[s] = text[s])]_vars

\* C3: once layout() has returned Ok, a later layout() on the session does
\* not run the engine's pipeline again and does not return Ok.
C3_LayoutSingleShot ==
  (last.op = "layout" /\ last.was_laid_out) => (last.ncalls = 0 /\ last.ret # "Ok")

\* C4: a configuration call on a session whose text is not yet set, or that
\* is already laid out, returns Err(Failed) and leaves the session's phase
\* and configuration unchanged.
C4_ConfigOnlyBetweenTextAndLayout ==
  [][\A s \in Sessions :
       (last'.s = s /\ last'.op \in ConfigOps /\ (~text_set[s] \/ laid_out[s]))
         => (last'.ret = "Failed" /\ UNCHANGED <<engine, text_set, laid_out>>)]_vars

\* C5: an accepted set_language(tag, start, end) or
\* set_freetype_face_range(face, start, end) with start <= end <= text length
\* gives the attribute to every index of [start, end) and to no other index.
C5_RangeIsHalfOpen ==
  [][\A s \in Sessions :
       (/\ last'.s = s
        /\ last'.op \in {"set_language", "set_freetype_face_range"}
        /\ last'.ret = "Ok"
        /\ last'.arg[1] <= last'.arg[2] /\ last'.arg[2] <= TextLen(s))
       => LET before == IF last'.op = "set_language" THEN lang[s] ELSE face[s]
              after == IF last'.op = "set_language" THEN lang'[s] ELSE face'[s]
          IN \A i \in Indices :
               IF last'.arg[1] <= i /\ i < last'.arg[2]
               THEN after[i] = last'.seen
               ELSE after[i] = before[i]]_vars

\* C6: every fallible operation returns Ok exactly when the engine call it
\* forwards reports success; otherwise new() returns CreateFailed, glyphs()
\* returns GetGlyphsFailed and every operation backed by a boolean engine
\* call returns Failed.
C6_ResultFollowsEngine ==
  /\ last.ret \in Results
  /\ last.op = "new" => last.ret = (IF last.eng THEN "Ok" ELSE "CreateFailed")
  /\ last.op = "glyphs" => last.ret = (IF last.eng THEN "Ok" ELSE "GetGlyphsFailed")
  /\ last.op \in BoolOps => last.ret = (IF last.eng THEN "Ok" ELSE "Failed")

C6_Witness ==
  \/ last.op = "layout" /\ ~last.eng /\ last.ret = "Failed"
  \/ last.op = "glyphs" /\ ~last.eng /\ last.ret = "GetGlyphsFailed"

\* C7: the handle of a created session is destroyed exactly once when the
\* session is torn down, in whatever phase and after whatever failures; no
\* call reaches a destroyed handle; tearing one session down leaves every
\* other session as it was.
SessionState(s) ==
  <<ptr[s], text[s], par_direction[s], lang[s], face[s], load_flags[s], features[s],
    text_set[s], laid_out[s], destroyed[s]>>

C7_DestroyedExactlyOnce ==
  /\ [](\A s \in Sessions :
          /\ ptr[s] = "dropped" => destroyed[s] = 1
          /\ ptr[s] # "dropped" => destroyed[s] = 0
          /\ (ptr[s] = "dropped" /\ last.s = s) => last.op = "drop")
  /\ [][\A s, t \in Sessions :
          (s # t /\ ptr[s] = "live" /\ ptr'[s] = "dropped")
            => SessionState(t)' = SessionState(t)]_vars

C7_Witness ==
  /\ ptr[1] = "dropped" /\ ptr[2] = "live"
  /\ laid_out[1] /\ text_set[2] /\ ~laid_out[2]
  /\ last.op = "drop" /\ last.s = 1

\* C8: the language in effect at an index of the text is the tag of the
\* latest accepted set_language call whose range [start, end) contains it
\* (last write wins on the overlap, earlier ranges keep the rest).
C8_LastWriteWins ==
  \A s \in Sessions : \A i \in Indices :
    i < TextLen(s) => lang[s][i] = lang_halfopen[s][i]

\* C9: in a laid-out session index_to_position returns the index, x and y
\* the engine wrote back, which may differ from the index passed in; when
\* the engine call fails it returns Err(Failed) and no Position.
C9_PositionIsWhatEngineWrote ==
  (last.op = "index_to_position" /\ last.was_laid_out) =>
     IF last.eng
     THEN last.ret = "Ok" /\ last.val = <<last.out[1], last.out[2], last.out[3]>>
     ELSE last.ret = "Failed" /\ last.val = << >>

C9_Witness ==
  /\ last.op = "index_to_position" /\ last.was_laid_out
  /\ last.ret = "Ok" /\ last.val[1] # last.arg[1] /\ last.val[2] = 5


C12_FailedConfigIsRecoverable ==
  /\ [][\A s \in Sessions :
          (last'.s = s /\ last'.op \in ConfigOps /\ last'.ret = "Failed")
            => UNCHANGED <<ptr, engine, text_set, laid_out>>]_vars
  /\ []((last.op \in ConfigOps /\ last.ret = "Failed")
          => /\ ptr[last.s] = "live"
             /\ ENABLED layout(last.s, TRUE)
             /\ ENABLED set_par_direction(last.s, "RightToLeft", TRUE))

C12_Witness ==
  /\ last.op = "add_font_feature" /\ last.ret = "Failed"
  /\ last.was_text_set /\ ~last.was_laid_out
  /\ par_direction[last.s] = "RightToLeft" /\ face[last.s][0] = "f1"


RangeOps == {"set_language", "set_freetype_face_range"}
RangeFns == {"raqm_set_language", "raqm_set_freetype_face_range"}

C17_AcceptedRangeWithinText ==
  (last.op \in RangeOps /\ last.ret = "Ok" /\ last.was_text_set)
    => last.arg[1] <= last.arg[2] /\ last.arg[2] <= TextLen(last.s)

\* C18: every call of a public operation makes exactly one call of its engine
\* function (layout() one raqm_layout, accepted or not), and an engine
\* failure is what the caller gets back.
C18_OneEngineCallNoRetry ==
  last.op # "none"
    => /\ Len(last.calls) = 1
       /\ last.ncalls = 1
       /\ last.calls[1].fn = EngineFn(last.op)
       /\ last.op = "layout" => last.calls[1].fn = "raqm_layout"
       /\ last.op = "new" => last.calls[1].fn = "raqm_create"
       /\ last.op = "glyphs" => last.calls[1].fn = "raqm_get_glyphs"
       /\ ~last.eng => last.ret \in {"Failed", "CreateFailed", "GetGlyphsFailed"}
       /\ (~last.eng /\ last.op \in BoolOps) => last.ret = "Failed"

C18_Witness ==
  /\ last.op = "layout" /\ ~last.eng /\ last.ret = "Failed"
  /\ last.was_text_set /\ ~last.was_laid_out /\ ~laid_out[last.s]
  /\ Len(last.calls) = 1

====
